---------------------------- MODULE Spec2Model ----------------------------
(***************************************************************************)
(* Model of src/main.py: the attendance check-in service ("Controle        *)
(* Presencial - Incubadora").  State: the table registros, the roster      *)
(* file usuarios.txt with its modification time, the module-level roster   *)
(* cache, the wall clock, and the last response produced.                  *)
(*                                                                         *)
(* Text (str) values that the code inspects character by character are     *)
(* sequences of one-character strings; opaque text (names of operations,   *)
(* IP addresses, tokens) is a TLA+ string.                                 *)
(***************************************************************************)
EXTENDS Integers, Sequences, FiniteSets, TLC

VARIABLES registros, now, ALLOWED_IPS, usuarios_txt, usuarios_mtime,
          USERS_CACHE, USERS_MTIME, resp, procs

vars == <<registros, now, ALLOWED_IPS, usuarios_txt, usuarios_mtime,
          USERS_CACHE, USERS_MTIME, resp, procs>>

(***************************************************************************)
(* Bounds of the model.                                                    *)
(***************************************************************************)
\* rows the table may hold
MaxRegistros == 3
\* whole calendar days after the first one that the clock runs through; it
\* stops at the first instant of the day after
MaxDay == 0
\* clock resolution: sub-second ticks per second (microseconds in the code)
TicksPerSecond == 2
\* modifications of usuarios.txt after start-up
MaxMods == 1

\* Optional values: None, or Some(x) holding x
None == <<>>
Some(x) == <<x>>
Get(o) == o[1]

(***************************************************************************)
(* Text helpers (str methods used by the code).                            *)
(***************************************************************************)
Digits == {"0", "1", "2", "3", "4", "5", "6", "7", "8", "9"}

\* str.isdigit on one character
IsDigit(c) == c \in Digits

Whitespace == {" ", "\t"}

\* n copies of character c
Rep(c, n) == [i \in 1..n |-> c]

RECURSIVE LStrip(_)
LStrip(s) == IF s # <<>> /\ Head(s) \in Whitespace THEN LStrip(Tail(s)) ELSE s

RECURSIVE RStrip(_)
RStrip(s) ==
    IF s # <<>> /\ s[Len(s)] \in Whitespace
    THEN RStrip(SubSeq(s, 1, Len(s) - 1))
    ELSE s

\* str.strip()
Strip(s) == LStrip(RStrip(s))

\* c in s
Contains(s, c) == \E i \in 1..Len(s) : s[i] = c

\* s.split(sep) for a one-character separator
RECURSIVE Split(_, _)
Split(s, sep) ==
    IF ~Contains(s, sep)
    THEN <<s>>
    ELSE LET i == CHOOSE k \in 1..Len(s) :
                      s[k] = sep /\ \A j \in 1..(k - 1) : s[j] # sep
         IN  <<SubSeq(s, 1, i - 1)>> \o Split(SubSeq(s, i + 1, Len(s)), sep)

UpperToLower ==
    [c \in {"A", "B", "C", "D", "E", "F", "G", "H", "I", "J", "K", "L", "M",
            "N", "O", "P", "Q", "R", "S", "T", "U", "V", "W", "X", "Y", "Z"} |->
        CASE c = "A" -> "a" [] c = "B" -> "b" [] c = "C" -> "c" [] c = "D" -> "d"
          [] c = "E" -> "e" [] c = "F" -> "f" [] c = "G" -> "g" [] c = "H" -> "h"
          [] c = "I" -> "i" [] c = "J" -> "j" [] c = "K" -> "k" [] c = "L" -> "l"
          [] c = "M" -> "m" [] c = "N" -> "n" [] c = "O" -> "o" [] c = "P" -> "p"
          [] c = "Q" -> "q" [] c = "R" -> "r" [] c = "S" -> "s" [] c = "T" -> "t"
          [] c = "U" -> "u" [] c = "V" -> "v" [] c = "W" -> "w" [] c = "X" -> "x"
          [] c = "Y" -> "y" [] c = "Z" -> "z"]

\* str.lower()
Lower(s) == [i \in 1..Len(s) |->
                IF s[i] \in DOMAIN UpperToLower THEN UpperToLower[s[i]] ELSE s[i]]

\* "".join([c for c in (cpf or "") if c.isdigit()])
normalize_cpf(cpf) == SelectSeq(cpf, IsDigit)

normalize_pin(pin) == SelectSeq(pin, IsDigit)

DigitValue(c) ==
    CASE c = "0" -> 0 [] c = "1" -> 1 [] c = "2" -> 2 [] c = "3" -> 3
      [] c = "4" -> 4 [] c = "5" -> 5 [] c = "6" -> 6 [] c = "7" -> 7
      [] c = "8" -> 8 [] c = "9" -> 9

DigitChar(n) ==
    CASE n = 0 -> "0" [] n = 1 -> "1" [] n = 2 -> "2" [] n = 3 -> "3"
      [] n = 4 -> "4" [] n = 5 -> "5" [] n = 6 -> "6" [] n = 7 -> "7"
      [] n = 8 -> "8" [] n = 9 -> "9"

\* int(s) for a text of decimal digits
RECURSIVE ParseInt(_)
ParseInt(s) ==
    IF s = <<>> THEN 0
    ELSE 10 * ParseInt(SubSeq(s, 1, Len(s) - 1)) + DigitValue(s[Len(s)])

\* the decimal digits of n, zero-padded to width w ("%0wd")
RECURSIVE Pad(_, _)
Pad(n, w) == IF w = 0 THEN <<>> ELSE Pad(n \div 10, w - 1) \o <<DigitChar(n % 10)>>

(***************************************************************************)
(* Calendar dates (datetime.date).  A date is <<year, month, day>>.        *)
(***************************************************************************)
IsLeap(y) == y % 4 = 0 /\ (y % 100 # 0 \/ y % 400 = 0)

DaysInMonth(y, m) ==
    CASE m \in {1, 3, 5, 7, 8, 10, 12} -> 31
      [] m \in {4, 6, 9, 11} -> 30
      [] m = 2 -> IF IsLeap(y) THEN 29 ELSE 28

RECURSIVE DaysBeforeMonth(_, _)
DaysBeforeMonth(y, m) ==
    IF m = 1 THEN 0 ELSE DaysBeforeMonth(y, m - 1) + DaysInMonth(y, m - 1)

\* date.toordinal(): days since 0001-01-01, that day being 1
ToOrdinal(d) ==
    LET y1 == d[1] - 1
    IN  y1 * 365 + (y1 \div 4) - (y1 \div 100) + (y1 \div 400)
          + DaysBeforeMonth(d[1], d[2]) + d[3]

IsDate(y, m, d) == y >= 1 /\ m \in 1..12 /\ d >= 1 /\ d <= DaysInMonth(y, m)

\* date.fromisoformat(s): Some(<<year, month, day>>), or None where it raises
date_fromisoformat(s) ==
    IF /\ Len(s) = 10
       /\ s[5] = "-" /\ s[8] = "-"
       /\ \A i \in {1, 2, 3, 4, 6, 7, 9, 10} : IsDigit(s[i])
    THEN LET y == ParseInt(SubSeq(s, 1, 4))
             m == ParseInt(SubSeq(s, 6, 7))
             d == ParseInt(SubSeq(s, 9, 10))
         IN  IF IsDate(y, m, d) THEN Some(<<y, m, d>>) ELSE None
    ELSE None

\* date.isoformat(): YYYY-MM-DD
date_isoformat(d) == Pad(d[1], 4) \o <<"-">> \o Pad(d[2], 2) \o <<"-">> \o Pad(d[3], 2)

(***************************************************************************)
(* Offset-aware datetimes.  An instant is a number of ticks since          *)
(* 00:00:00 UTC of EpochDate; a datetime is [inst, off]: the instant and   *)
(* the UTC offset (hours) it is expressed in.                              *)
(***************************************************************************)
EpochDate == <<2024, 12, 31>>

SecondTicks == TicksPerSecond
HourTicks == 3600 * TicksPerSecond
DayTicks == 86400 * TicksPerSecond

\* BRT = timezone(timedelta(hours=-3))
BRT == 0 - 3

\* the calendar dates the model's clock can show: EpochDate and the days after
DayDate ==
    [k \in 0..(MaxDay + 1) |->
        CHOOSE d \in {<<2024, 12, 31>>} \cup {<<2025, 1, n>> : n \in 1..31} :
            ToOrdinal(d) = ToOrdinal(EpochDate) + k]

\* date.fromordinal, on the days of the model
FromDayIndex(k) == DayDate[k]

\* datetime.combine(d, time(h, m, s), tzinfo=tz), the time given in seconds
combine(d, secs, off) ==
    [inst |-> (ToOrdinal(d) - ToOrdinal(EpochDate)) * DayTicks
                + secs * SecondTicks - off * HourTicks,
     off |-> off]

\* dt.astimezone(tz): the same instant, expressed at another offset
astimezone(dt, off) == [inst |-> dt.inst, off |-> off]

\* the wall-clock fields of a datetime
LocalTicks(dt) == dt.inst + dt.off * HourTicks
LocalDate(dt) == FromDayIndex(LocalTicks(dt) \div DayTicks)
LocalSeconds(dt) == (LocalTicks(dt) % DayTicks) \div SecondTicks
LocalFraction(dt) == LocalTicks(dt) % SecondTicks

\* dt.isoformat(): YYYY-MM-DDTHH:MM:SS[.ffffff]+HH:MM, as its fields
isoformat(dt) ==
    [year |-> LocalDate(dt)[1], month |-> LocalDate(dt)[2], day |-> LocalDate(dt)[3],
     hour |-> LocalSeconds(dt) \div 3600,
     minute |-> (LocalSeconds(dt) % 3600) \div 60,
     second |-> LocalSeconds(dt) % 60,
     fraction |-> LocalFraction(dt),
     utcoffset |-> dt.off]

\* dt.strftime("%d/%m/%Y %H:%M:%S"), as its fields in that order
strftime_dmy(dt) ==
    <<LocalDate(dt)[3], LocalDate(dt)[2], LocalDate(dt)[1],
      LocalSeconds(dt) \div 3600, (LocalSeconds(dt) % 3600) \div 60,
      LocalSeconds(dt) % 60>>

\* brt_now(): the clock reading t, at offset -03:00
brt_now(t) == [inst |-> t, off |-> BRT]

\* parse_period(start, end)
parse_period_strict(start, end) ==
    LET s == date_fromisoformat(start)
        e == date_fromisoformat(end)
    IN  IF s = None \/ e = None
        THEN [status |-> 400, detail |-> <<"Use start/end no formato YYYY-MM-DD.">>]
        ELSE IF ToOrdinal(Get(e)) <= ToOrdinal(Get(s))
        THEN [status |-> 400, detail |-> <<"end deve ser >= start.">>]
        ELSE [status |-> 200,
              start_dt |-> combine(Get(s), 0, BRT),
              end_dt |-> combine(Get(e), 23 * 3600 + 59 * 60 + 59, BRT)]

parse_period(start, end) ==
    LET s == date_fromisoformat(start)
        e == date_fromisoformat(end)
    IN  IF s = None \/ e = None
        THEN [status |-> 400, detail |-> <<"Use start/end no formato YYYY-MM-DD.">>]
        ELSE IF ToOrdinal(Get(e)) < ToOrdinal(Get(s))
        THEN [status |-> 400, detail |-> <<"end deve ser >= start.">>]
        ELSE [status |-> 200,
              start_dt |-> combine(Get(s), 0, BRT),
              end_dt |-> combine(Get(e), 23 * 3600 + 59 * 60 + 59, BRT)]


(***************************************************************************)
(* The roster file usuarios.txt and the cache in front of it.              *)
(***************************************************************************)
\* an empty dict
EmptyUsers == [c \in {} |-> <<>>]

\* users[cpf] = (nome, pin)
DictSet_keep_first(users, k, v) ==
    [c \in DOMAIN users \cup {k} |-> IF c \in DOMAIN users THEN users[c] ELSE v]

DictSet(users, k, v) ==
    [c \in DOMAIN users \cup {k} |-> IF c = k THEN v ELSE users[c]]

\* the body of the loop of load_users_from_txt, for one line
load_line(users, raw) ==
    LET line == Strip(raw)
        sep == IF Contains(line, ";") THEN Some(";")
               ELSE IF Contains(line, ",") THEN Some(",") ELSE None
        parts == LET ps == Split(line, Get(sep)) IN [i \in 1..Len(ps) |-> Strip(ps[i])]
        nome == parts[1]
        cpf == parts[2]
        pin == parts[3]
        cpf_n == normalize_cpf(cpf)
        pin_n == normalize_pin(pin)
    IN  IF line = <<>> \/ line[1] = "#" THEN users
        ELSE IF sep = None THEN users
        ELSE IF Len(parts) < 3 THEN users
        ELSE IF /\ Lower(nome) \in {<<"n", "o", "m", "e">>, <<"n", "a", "m", "e">>}
                /\ Lower(cpf) \in {<<"c", "p", "f">>}
                /\ Lower(pin) \in {<<"p", "i", "n">>, <<"s", "e", "n", "h", "a">>}
             THEN users
        ELSE IF Len(cpf_n) # 11 THEN users
        ELSE IF ~(4 <= Len(pin_n) /\ Len(pin_n) <= 8) THEN users
        ELSE DictSet(users, cpf_n, <<Strip(nome), pin_n>>)

RECURSIVE load_lines(_, _)
load_lines(users, lines) ==
    IF lines = <<>> THEN users
    ELSE load_lines(load_line(users, Head(lines)), Tail(lines))

\* load_users_from_txt(filepath), given the lines of the file
load_users_from_txt(lines) == load_lines(EmptyUsers, lines)

(***************************************************************************)
(* Roster files and request texts of the model; the cache get_users keeps. *)
(***************************************************************************)
CPF_ANA == Rep("1", 11)
CPF_ANA_MASKED ==
    Rep("1", 3) \o <<".">> \o Rep("1", 3) \o <<".">> \o Rep("1", 3) \o <<"-">> \o Rep("1", 2)
CPF_BIA == Rep("2", 11)
CPF_UNKNOWN == Rep("3", 11)
CPF_SHORT == <<"1", "2", "3">>

PIN_1234 == <<"1", "2", "3", "4">>
PIN_4321 == <<"4", "3", "2", "1">>
PIN_LETTERS == <<"1", "2", "a", "b">>

NOME_ANA == <<"A", "n", "a">>
NOME_BIA == <<"B", "i", "a">>

\* usuarios.txt as first deployed: a comment, a header, one record with ";"
\* and a masked identifier, one with ","
ROSTER_1 ==
    << <<"#", " ", "r">>,
       <<"n", "o", "m", "e", ";", "c", "p", "f", ";", "p", "i", "n">>,
       NOME_ANA \o <<";">> \o CPF_ANA_MASKED \o <<";">> \o PIN_1234,
       <<>>,
       NOME_BIA \o <<",", " ">> \o CPF_BIA \o <<",">> \o PIN_1234 >>

\* usuarios.txt after an edit: Ana's PIN changed, Bia removed
ROSTER_2 ==
    << NOME_ANA \o <<";">> \o CPF_ANA \o <<";">> \o PIN_4321 >>

RosterFiles == {ROSTER_1, ROSTER_2}

\* load_users_from_txt on each roster file of the model, computed once
LoadedRoster == [f \in RosterFiles |-> load_users_from_txt(f)]

\* get_users(): the new _USERS_CACHE (which it returns), the new _USERS_MTIME,
\* and whether the file was read
get_users_stale(cache, stored, lines, mtime) ==
    IF cache = None
    THEN [cache |-> Some(LoadedRoster[lines]), mtime |-> Some(mtime),
          reread |-> TRUE]
    ELSE [cache |-> cache, mtime |-> stored, reread |-> FALSE]

get_users(cache, stored, lines, mtime) ==
    IF cache = None \/ stored # Some(mtime)
    THEN [cache |-> Some(LoadedRoster[lines]), mtime |-> Some(mtime),
          reread |-> TRUE]
    ELSE [cache |-> cache, mtime |-> stored, reread |-> FALSE]

Entrada == "Entrada"
Saida == "Saída"
Acao == {Entrada, Saida}

IP_OFFICE == "10.0.0.1"
IP_OTHER == "10.0.0.9"
IP_PROXY == "172.16.0.2"

\* ADMIN_TOKEN's default
ADMIN_TOKEN == "admin-incubadora-2026"

\* the offsets at which the database session may hand back a timestamptz
SessionOffsets == {0, BRT}

(***************************************************************************)
(* Access guards.                                                          *)
(***************************************************************************)
\* client_ip(request): request.xff is the x-forwarded-for header as its
\* comma-separated entries, stripped (None when absent, Some(<<>>) when empty);
\* request.client is the peer host, or None
client_ip(request) ==
    IF request.xff # None /\ Get(request.xff) # <<>>
    THEN Get(request.xff)[1]
    ELSE IF request.client # None THEN Get(request.client) ELSE "unknown"

\* enforce_ip_allowlist(request): TRUE when the request passes
enforce_ip_allowlist_closed(allowed, request) == client_ip(request) \in allowed

enforce_ip_allowlist(allowed, request) ==
    allowed = {} \/ client_ip(request) \in allowed

\* enforce_admin(request): TRUE when the request passes
enforce_admin(token) == token = Some(ADMIN_TOKEN)


(***************************************************************************)
(* The table registros: a set of rows [id, nome, cpf, acao, data_hora,     *)
(* ip_origem]; data_hora is stored as an instant (timestamptz).            *)
(***************************************************************************)
RowsOf(rows, cpf) == {r \in rows : r.cpf = cpf}

\* select(Registro).where(cpf == cpf).order_by(data_hora.desc()).limit(1)
\* .scalar_one_or_none(): the results the query may give (rows that share
\* the greatest data_hora are in no defined order)
select_last_any(rows, cpf) ==
    IF rows = {} THEN {None}
    ELSE {Some(r) : r \in {x \in rows : \A q \in rows : q.data_hora <= x.data_hora}}

select_last(rows, cpf) ==
    IF RowsOf(rows, cpf) = {} THEN {None}
    ELSE {Some(r) : r \in {x \in RowsOf(rows, cpf) :
                               \A q \in RowsOf(rows, cpf) : q.data_hora <= x.data_hora}}

\* the alternation rule: the error raised for the last row and the requested
\* action, or None when the request may be recorded
alternation_error_401(last, acao) ==
    IF last # None /\ Get(last).acao = acao
    THEN Some([status |-> 401, detail |-> <<"Ultimo registro foi", Get(last).acao>>])
    ELSE None

alternation_error_none(last, acao) == None

alternation_error_entrada_first(last, acao) ==
    IF last = None /\ acao # Entrada
    THEN Some([status |-> 400, detail |-> <<"Ultimo registro foi", "">>])
    ELSE IF last # None /\ Get(last).acao = acao
    THEN Some([status |-> 400, detail |-> <<"Ultimo registro foi", Get(last).acao>>])
    ELSE None

alternation_error(last, acao) ==
    IF last # None /\ Get(last).acao = acao
    THEN Some([status |-> 400, detail |-> <<"Ultimo registro foi", Get(last).acao>>])
    ELSE None

\* Registro(nome=..., cpf=..., acao=..., data_hora=brt_now(), ip_origem=...),
\* with the primary key the insert assigns
new_registro(rows, nome, cpf, acao, dt, ip) ==
    [id |-> Cardinality(rows) + 1, nome |-> nome, cpf |-> cpf, acao |-> acao,
     data_hora |-> dt.inst, ip_origem |-> ip]

\* db.add(reg); db.commit()
db_commit_replace(rows, reg) == {r \in rows : r.cpf # reg.cpf} \cup {reg}

db_commit(rows, reg) == rows \cup {reg}

\* the guards of registrar_ponto before the table is read: the error they
\* raise (status 200 when they all pass), and the roster get_users() returned
check_guards_no_pin(allowed, cache, stored, lines, mtime, payload, request) ==
    LET cpf == normalize_cpf(payload.cpf)
        pin == normalize_pin(payload.pin)
        gu == get_users(cache, stored, lines, mtime)
        keep == [cache |-> cache, mtime |-> stored, reread |-> FALSE]
    IN  IF ~enforce_ip_allowlist(allowed, request)
        THEN [status |-> 403, detail |-> <<"Acesso negado">>, gu |-> keep, looked |-> FALSE]
        ELSE IF Len(cpf) # 11
        THEN [status |-> 400, detail |-> <<"CPF invalido">>, gu |-> keep, looked |-> FALSE]
        ELSE IF ~(4 <= Len(pin) /\ Len(pin) <= 8)
        THEN [status |-> 400, detail |-> <<"PIN invalido">>, gu |-> keep, looked |-> FALSE]
        ELSE IF cpf \notin DOMAIN Get(gu.cache)
        THEN [status |-> 404, detail |-> <<"Usuario nao cadastrado">>, gu |-> gu, looked |-> TRUE]
        ELSE [status |-> 200, detail |-> <<>>, gu |-> gu, looked |-> TRUE]

check_guards_lengths_first(allowed, cache, stored, lines, mtime, payload, request) ==
    LET cpf == normalize_cpf(payload.cpf)
        pin == normalize_pin(payload.pin)
        gu == get_users(cache, stored, lines, mtime)
        keep == [cache |-> cache, mtime |-> stored, reread |-> FALSE]
    IN  IF Len(cpf) # 11
        THEN [status |-> 400, detail |-> <<"CPF invalido">>, gu |-> keep, looked |-> FALSE]
        ELSE IF ~(4 <= Len(pin) /\ Len(pin) <= 8)
        THEN [status |-> 400, detail |-> <<"PIN invalido">>, gu |-> keep, looked |-> FALSE]
        ELSE IF ~enforce_ip_allowlist(allowed, request)
        THEN [status |-> 403, detail |-> <<"Acesso negado">>, gu |-> keep, looked |-> FALSE]
        ELSE IF cpf \notin DOMAIN Get(gu.cache)
        THEN [status |-> 404, detail |-> <<"Usuario nao cadastrado">>, gu |-> gu, looked |-> TRUE]
        ELSE IF pin # Get(gu.cache)[cpf][2]
        THEN [status |-> 401, detail |-> <<"PIN incorreto">>, gu |-> gu, looked |-> TRUE]
        ELSE [status |-> 200, detail |-> <<>>, gu |-> gu, looked |-> TRUE]

check_guards(allowed, cache, stored, lines, mtime, payload, request) ==
    LET cpf == normalize_cpf(payload.cpf)
        pin == normalize_pin(payload.pin)
        gu == get_users(cache, stored, lines, mtime)
        keep == [cache |-> cache, mtime |-> stored, reread |-> FALSE]
    IN  IF ~enforce_ip_allowlist(allowed, request)
        THEN [status |-> 403, detail |-> <<"Acesso negado">>, gu |-> keep, looked |-> FALSE]
        ELSE IF Len(cpf) # 11
        THEN [status |-> 400, detail |-> <<"CPF invalido">>, gu |-> keep, looked |-> FALSE]
        ELSE IF ~(4 <= Len(pin) /\ Len(pin) <= 8)
        THEN [status |-> 400, detail |-> <<"PIN invalido">>, gu |-> keep, looked |-> FALSE]
        ELSE IF cpf \notin DOMAIN Get(gu.cache)
        THEN [status |-> 404, detail |-> <<"Usuario nao cadastrado">>, gu |-> gu, looked |-> TRUE]
        ELSE IF pin # Get(gu.cache)[cpf][2]
        THEN [status |-> 401, detail |-> <<"PIN incorreto">>, gu |-> gu, looked |-> TRUE]
        ELSE [status |-> 200, detail |-> <<>>, gu |-> gu, looked |-> TRUE]

\* the response of POST /check
check_response(payload, request, status, detail, body) ==
    [op |-> "check", payload |-> payload, request |-> request,
     status |-> status, detail |-> detail, body |-> body]

\* the body returned on success; reg.data_hora is read back after the
\* commit, at the offset of the database session
check_body(reg, soff) ==
    [ok |-> TRUE, nome |-> reg.nome, cpf |-> reg.cpf, acao |-> reg.acao,
     data_hora |-> isoformat([inst |-> reg.data_hora, off |-> soff])]

\* POST /check, run from start to end with no other call in between; t is
\* the clock reading brt_now() gives
registrar_ponto(payload, request, t) ==
    LET g == check_guards(ALLOWED_IPS, USERS_CACHE, USERS_MTIME,
                          usuarios_txt, usuarios_mtime, payload, request)
        cpf == normalize_cpf(payload.cpf)
    IN  /\ USERS_CACHE # None
        /\ USERS_CACHE' = g.gu.cache
        /\ USERS_MTIME' = g.gu.mtime
        /\ UNCHANGED <<ALLOWED_IPS, usuarios_txt, usuarios_mtime, procs>>
        /\ IF g.status # 200
           THEN /\ resp' = check_response(payload, request, g.status, g.detail, None)
                /\ UNCHANGED <<registros, now>>
           ELSE \E last \in select_last(registros, cpf) :
                  LET err == alternation_error(last, payload.acao)
                      reg == new_registro(registros, Get(g.gu.cache)[cpf][1], cpf,
                                          payload.acao, brt_now(t), client_ip(request))
                  IN  IF err # None
                      THEN /\ resp' = check_response(payload, request,
                                                     Get(err).status, Get(err).detail, None)
                           /\ UNCHANGED <<registros, now>>
                      ELSE /\ Cardinality(registros) < MaxRegistros
                           /\ registros' = db_commit(registros, reg)
                           /\ now' = t
                           /\ \E soff \in SessionOffsets :
                                resp' = check_response(payload, request, 200, <<>>,
                                                       Some(check_body(reg, soff)))

\* startup(): init_db() and a first get_users()
startup ==
    LET gu == get_users(USERS_CACHE, USERS_MTIME, usuarios_txt, usuarios_mtime)
    IN  /\ USERS_CACHE = None
        /\ USERS_CACHE' = gu.cache
        /\ USERS_MTIME' = gu.mtime
        /\ UNCHANGED <<registros, now, ALLOWED_IPS, usuarios_txt, usuarios_mtime,
                       resp, procs>>

\* an administrator edits usuarios.txt: new content, later modification time
ModifyRoster(lines) ==
    /\ usuarios_mtime < MaxMods
    /\ usuarios_txt' = lines
    /\ usuarios_mtime' = usuarios_mtime + 1
    /\ UNCHANGED <<registros, now, ALLOWED_IPS, USERS_CACHE, USERS_MTIME, resp, procs>>


(***************************************************************************)
(* Admin exports.                                                          *)
(***************************************************************************)
\* .where(Registro.data_hora >= start_dt, Registro.data_hora <= end_dt)
in_period_exclusive(inst, start_dt, end_dt) ==
    start_dt.inst <= inst /\ inst < end_dt.inst

in_period(inst, start_dt, end_dt) ==
    start_dt.inst <= inst /\ inst <= end_dt.inst

\* .order_by(Registro.data_hora.asc()).all(): the orders the query may give
RECURSIVE order_by_asc(_)
order_by_asc(rows) ==
    IF rows = {} THEN {<<>>}
    ELSE UNION { {<<r>> \o s : s \in order_by_asc(rows \ {r})} :
                 r \in {x \in rows : \A q \in rows : x.data_hora <= q.data_hora} }

\* the rows a select over the period may return, in order
select_period(rows, start_dt, end_dt) ==
    order_by_asc({r \in rows : in_period(r.data_hora, start_dt, end_dt)})

\* a data_hora as the driver hands it back: at the session's offset
fetched(inst, soff) == [inst |-> inst, off |-> soff]

\* the loop of admin_export_json over the rows
json_rows(rows, soff) ==
    [i \in 1..Len(rows) |->
        [nome |-> rows[i].nome, cpf |-> rows[i].cpf, acao |-> rows[i].acao,
         data_hora |-> isoformat(astimezone(fetched(rows[i].data_hora, soff), BRT)),
         ip_origem |-> rows[i].ip_origem]]

CSV_HEADER == <<"Nome", "CPF", "Acao", "Data/Hora">>

\* the loop of admin_export_csv over the rows
csv_rows(rows, soff) ==
    [i \in 1..Len(rows) |->
        <<rows[i].nome, rows[i].cpf, rows[i].acao,
          strftime_dmy(astimezone(fetched(rows[i].data_hora, soff), BRT))>>]

\* the loop of admin_export_xlsx over the rows
xlsx_rows(rows, soff) ==
    [i \in 1..Len(rows) |->
        <<rows[i].nome, rows[i].cpf, rows[i].acao,
          strftime_dmy(astimezone(fetched(rows[i].data_hora, soff), BRT))>>]

export_response(op, token, start, end, status, detail, body) ==
    [op |-> op, token |-> token, start |-> start, end |-> end,
     status |-> status, detail |-> detail, body |-> body]

\* what the guard and the period parser of an export handler raise, if anything
export_guards_period_first(token, start, end) ==
    LET per == parse_period(start, end)
    IN  IF per.status # 200
        THEN [status |-> per.status, detail |-> per.detail]
        ELSE IF ~enforce_admin(token)
        THEN [status |-> 401, detail |-> <<"Nao autorizado (admin).">>]
        ELSE [status |-> 200, detail |-> <<>>, start_dt |-> per.start_dt,
              end_dt |-> per.end_dt]

export_guards(token, start, end) ==
    LET per == parse_period(start, end)
    IN  IF ~enforce_admin(token)
        THEN [status |-> 401, detail |-> <<"Nao autorizado (admin).">>]
        ELSE IF per.status # 200
        THEN [status |-> per.status, detail |-> per.detail]
        ELSE [status |-> 200, detail |-> <<>>, start_dt |-> per.start_dt,
              end_dt |-> per.end_dt]

\* GET /admin/export.json: the responses it may give in the current state
admin_export_json_responses(token, start, end) ==
    LET g == export_guards(token, start, end)
    IN  IF g.status # 200
        THEN {export_response("export.json", token, start, end, g.status, g.detail, None)}
        ELSE {export_response("export.json", token, start, end, 200, <<>>,
                  Some([start |-> start, end |-> end, total |-> Len(rows),
                        registros |-> json_rows(rows, soff)])) :
              rows \in select_period(registros, g.start_dt, g.end_dt),
              soff \in SessionOffsets}

\* GET /admin/export.csv
admin_export_csv_responses(token, start, end) ==
    LET g == export_guards(token, start, end)
    IN  IF g.status # 200
        THEN {export_response("export.csv", token, start, end, g.status, g.detail, None)}
        ELSE {export_response("export.csv", token, start, end, 200, <<>>,
                  Some([filename |-> <<"Ponto_Incubadora_", start, "_a_", end, ".csv">>,
                        rows |-> <<CSV_HEADER>> \o csv_rows(rows, soff)])) :
              rows \in select_period(registros, g.start_dt, g.end_dt),
              soff \in SessionOffsets}

\* GET /admin/export.xlsx
admin_export_xlsx_responses(token, start, end) ==
    LET g == export_guards(token, start, end)
    IN  IF g.status # 200
        THEN {export_response("export.xlsx", token, start, end, g.status, g.detail, None)}
        ELSE {export_response("export.xlsx", token, start, end, 200, <<>>,
                  Some([filename |-> <<"Ponto_Incubadora_", start, "_a_", end, ".xlsx">>,
                        rows |-> <<CSV_HEADER>> \o xlsx_rows(rows, soff),
                        freeze_panes |-> "A2",
                        auto_filter |-> <<"A1", "D", Len(rows) + 1>>])) :
              rows \in select_period(registros, g.start_dt, g.end_dt),
              soff \in SessionOffsets}

admin_export_json(token, start, end) ==
    /\ USERS_CACHE # None
    /\ resp' \in admin_export_json_responses(token, start, end)
    /\ UNCHANGED <<registros, now, ALLOWED_IPS, usuarios_txt, usuarios_mtime,
                   USERS_CACHE, USERS_MTIME, procs>>

admin_export_csv(token, start, end) ==
    /\ USERS_CACHE # None
    /\ resp' \in admin_export_csv_responses(token, start, end)
    /\ UNCHANGED <<registros, now, ALLOWED_IPS, usuarios_txt, usuarios_mtime,
                   USERS_CACHE, USERS_MTIME, procs>>

admin_export_xlsx(token, start, end) ==
    /\ USERS_CACHE # None
    /\ resp' \in admin_export_xlsx_responses(token, start, end)
    /\ UNCHANGED <<registros, now, ALLOWED_IPS, usuarios_txt, usuarios_mtime,
                   USERS_CACHE, USERS_MTIME, procs>>

(***************************************************************************)
(* The service with its calls run one at a time.                           *)
(***************************************************************************)
Procs == {1, 2}

IdleProc == [pc |-> "idle"]

NoResponse == [op |-> "none", status |-> 0, body |-> None]

\* the instant one tick before the first day of the model begins (UTC-3)
BootInstant == combine(EpochDate, 0, BRT).inst - 1

InitCommon ==
    /\ registros = {}
    /\ now = BootInstant
    /\ usuarios_txt = ROSTER_1
    /\ usuarios_mtime = 0
    /\ USERS_CACHE = None
    /\ USERS_MTIME = None
    /\ resp = NoResponse
    /\ procs = [p \in Procs |-> IdleProc]

Init ==
    /\ InitCommon
    /\ ALLOWED_IPS = {IP_OFFICE}

REQ_OFFICE == [xff |-> Some(<<IP_OFFICE>>), client |-> Some(IP_PROXY)]
REQ_OTHER == [xff |-> Some(<<IP_OTHER, IP_OFFICE>>), client |-> Some(IP_PROXY)]

\* check-in calls: every identifier of the roster with both PINs and both
\* actions from the office, and one call failing each guard
CheckInputs ==
    {<<[cpf |-> c, pin |-> p, acao |-> a], REQ_OFFICE>> :
        c \in {CPF_ANA_MASKED, CPF_BIA}, p \in {PIN_1234, PIN_4321}, a \in Acao}
    \cup {<<[cpf |-> CPF_UNKNOWN, pin |-> PIN_1234, acao |-> Entrada], REQ_OFFICE>>,
          <<[cpf |-> CPF_SHORT, pin |-> PIN_1234, acao |-> Entrada], REQ_OFFICE>>,
          <<[cpf |-> CPF_ANA, pin |-> PIN_LETTERS, acao |-> Saida], REQ_OFFICE>>,
          <<[cpf |-> CPF_ANA, pin |-> PIN_1234, acao |-> Entrada], REQ_OTHER>>}

\* the dates of the model's days as YYYY-MM-DD texts
DayString(k) == date_isoformat(DayDate[k])

Tokens == {Some(ADMIN_TOKEN), Some("admin"), None}

Next ==
    \/ startup
    \/ \E lines \in RosterFiles : ModifyRoster(lines)
    \/ \E in \in CheckInputs : registrar_ponto(in[1], in[2], now + 1)
    \/ \E token \in Tokens : admin_export_json(token, DayString(0), DayString(0))
    \/ \E token \in Tokens : admin_export_csv(token, DayString(0), DayString(0))
    \/ \E token \in Tokens : admin_export_xlsx(token, DayString(0), DayString(0))

Spec == Init /\ [][Next]_vars


(***************************************************************************)
(* Properties of the ledger, calls run one at a time (Spec).               *)
(***************************************************************************)
\* a and b are neighbours in their identifier's events ordered by timestamp
Consecutive(rows, a, b) ==
    /\ a # b
    /\ a.cpf = b.cpf
    /\ a.data_hora <= b.data_hora
    /\ ~\E c \in RowsOf(rows, a.cpf) \ {a, b} :
           a.data_hora <= c.data_hora /\ c.data_hora <= b.data_hora

Alternates(rows) ==
    \A a \in rows, b \in rows : Consecutive(rows, a, b) => a.acao # b.acao

\* the rows of an identifier that no row of it is later than
LatestRows(rows, cpf) ==
    {r \in RowsOf(rows, cpf) : \A q \in RowsOf(rows, cpf) : q.data_hora <= r.data_hora}

\* the step is the call POST /check with input in
IsCheck(in) ==
    /\ resp'.op = "check" /\ resp'.payload = in[1]
    /\ registrar_ponto(in[1], in[2], now + 1)

\* what the roster file on disk says, parsed
RosterOnDisk == LoadedRoster[usuarios_txt]

IpPasses(in) == ALLOWED_IPS = {} \/ client_ip(in[2]) \in ALLOWED_IPS
LengthsPass(in) ==
    /\ Len(normalize_cpf(in[1].cpf)) = 11
    /\ Len(normalize_pin(in[1].pin)) \in 4..8
Known(in) == normalize_cpf(in[1].cpf) \in DOMAIN RosterOnDisk
PinMatches(in) == RosterOnDisk[normalize_cpf(in[1].cpf)][2] = normalize_pin(in[1].pin)
Authenticated(in) == IpPasses(in) /\ LengthsPass(in) /\ Known(in) /\ PinMatches(in)

\* the identifier's latest event has the action the call asks for
Repeats(in) ==
    \E r \in LatestRows(registros, normalize_cpf(in[1].cpf)) : r.acao = in[1].acao

IsAlternationError(r) ==
    r.op = "check" /\ r.detail # <<>> /\ r.detail[1] = "Ultimo registro foi"

\* C1: with the calls run one at a time and every event stamped strictly later
\* than the earlier ones, no identifier ever has two events, neighbours in
\* timestamp order, with the same action.
C1_Alternation ==
    /\ Alternates(registros)
    /\ \A a \in registros, b \in registros : a # b => a.data_hora # b.data_hora

\* an identifier with three events on record
C1_Witness ==
    \E cpf \in {CPF_ANA, CPF_BIA} : Cardinality(RowsOf(registros, cpf)) >= 3

\* C3: an authenticated check-in that asks for the action of the identifier's
\* latest event fails with the alternation error naming that action and
\* leaves the table as it was; a successful check-in adds one row, which is
\* then the identifier's latest, so that the same call repeated is rejected.
C3_Rejection ==
    [][\A in \in CheckInputs : IsCheck(in) =>
          /\ (Authenticated(in) /\ Repeats(in)) =>
                /\ resp'.detail = <<"Ultimo registro foi", in[1].acao>>
                /\ resp'.status # 200
                /\ registros' = registros
          /\ resp'.status = 200 =>
                /\ Cardinality(registros') = Cardinality(registros) + 1
                /\ \A r \in LatestRows(registros', normalize_cpf(in[1].cpf)) :
                      r.acao = in[1].acao /\ r \notin registros]_vars

\* Entrada accepted, then Entrada again rejected: one row, naming Entrada
C3_Witness ==
    /\ IsAlternationError(resp)
    /\ resp.detail[2] = Entrada
    /\ resp.payload.acao = Entrada
    /\ Cardinality(registros) = 1
    /\ \A r \in registros : r.acao = Entrada /\ r.cpf = normalize_cpf(resp.payload.cpf)

\* the status the call must end with, by the first guard that fails
ExpectedStatus(in, alternation) ==
    IF ~IpPasses(in) THEN 403
    ELSE IF ~LengthsPass(in) THEN 400
    ELSE IF ~Known(in) THEN 404
    ELSE IF ~PinMatches(in) THEN 401
    ELSE IF Repeats(in) THEN alternation
    ELSE 200

\* C4 as stated: a check-in rejected by the alternation rule is answered 401
\* (validation 400, denied IP 403, unknown user 404, bad PIN 401).
C4_Original ==
    [][\A in \in CheckInputs : IsCheck(in) =>
          resp'.status = ExpectedStatus(in, 401)]_vars

\* C4 as amended: a check-in rejected by the alternation rule is answered 400,
\* the status of a validation failure; a bad PIN gives 401, a denied IP 403,
\* an unknown user 404.
C4_Status ==
    [][\A in \in CheckInputs : IsCheck(in) =>
          resp'.status = ExpectedStatus(in, 400)]_vars

\* an alternation rejection answered 400
C4_Witness == IsAlternationError(resp) /\ resp.status = 400

IsExport(r) == r.op \in {"export.json", "export.csv", "export.xlsx"}

\* C5: a row once in the table stays, unchanged; a successful check-in adds
\* exactly one row and no other step (failed check-in, export, roster edit or
\* reload) adds, removes or changes one.
C5_AppendOnly ==
    [][/\ registros \subseteq registros'
       /\ \A r \in registros' \ registros : \A q \in registros : q.id # r.id
       /\ IF \E in \in CheckInputs : IsCheck(in) /\ resp'.status = 200
          THEN Cardinality(registros' \ registros) = 1
          ELSE registros' = registros]_vars

\* an export answered with the table holding rows, then still holding them
C5_Witness ==
    /\ Cardinality(registros) >= 2
    /\ resp.op = "export.csv" /\ resp.status = 200
    /\ Len(Get(resp.body).rows) = Cardinality(registros) + 1


(***************************************************************************)
(* POST /check served by concurrent workers (SpecConc): each call is three *)
(* steps, the guards, the SELECT of the last row, and the decision with    *)
(* the INSERT and COMMIT; the code takes no lock and opens each session at *)
(* the engine's default isolation, so a SELECT sees the rows committed so  *)
(* far and nothing orders two calls between their SELECT and their COMMIT. *)
(***************************************************************************)
\* lines 221-237 of registrar_ponto, run by worker p
check_begin(p, payload, request) ==
    LET g == check_guards(ALLOWED_IPS, USERS_CACHE, USERS_MTIME,
                          usuarios_txt, usuarios_mtime, payload, request)
        cpf == normalize_cpf(payload.cpf)
    IN  /\ USERS_CACHE # None
        /\ procs[p].pc = "idle"
        /\ USERS_CACHE' = g.gu.cache
        /\ USERS_MTIME' = g.gu.mtime
        /\ UNCHANGED <<registros, now, ALLOWED_IPS, usuarios_txt, usuarios_mtime>>
        /\ IF g.status # 200
           THEN /\ resp' = check_response(payload, request, g.status, g.detail, None)
                /\ UNCHANGED procs
           ELSE /\ procs' = [procs EXCEPT ![p] =
                                [pc |-> "select", payload |-> payload,
                                 request |-> request, cpf |-> cpf,
                                 nome_cadastrado |-> Get(g.gu.cache)[cpf][1],
                                 last |-> None]]
                /\ UNCHANGED resp

\* lines 240-245: the SELECT of the identifier's last row
check_select(p) ==
    /\ procs[p].pc = "select"
    /\ \E last \in select_last(registros, procs[p].cpf) :
          procs' = [procs EXCEPT ![p].pc = "decide", ![p].last = last]
    /\ UNCHANGED <<registros, now, ALLOWED_IPS, usuarios_txt, usuarios_mtime,
                   USERS_CACHE, USERS_MTIME, resp>>

\* lines 247-269: the alternation rule on the row read, then INSERT and COMMIT
check_finish(p, t) ==
    LET me == procs[p]
        err == alternation_error(me.last, me.payload.acao)
        reg == new_registro(registros, me.nome_cadastrado, me.cpf,
                            me.payload.acao, brt_now(t), client_ip(me.request))
    IN  /\ me.pc = "decide"
        /\ procs' = [procs EXCEPT ![p] = IdleProc]
        /\ UNCHANGED <<ALLOWED_IPS, usuarios_txt, usuarios_mtime,
                       USERS_CACHE, USERS_MTIME>>
        /\ IF err # None
           THEN /\ resp' = check_response(me.payload, me.request,
                                          Get(err).status, Get(err).detail, None)
                /\ UNCHANGED <<registros, now>>
           ELSE /\ Cardinality(registros) < MaxRegistros
                /\ registros' = db_commit(registros, reg)
                /\ now' = t
                /\ \E soff \in SessionOffsets :
                     resp' = check_response(me.payload, me.request, 200, <<>>,
                                            Some(check_body(reg, soff)))

\* concurrent calls: both identifiers, both actions, and one with a wrong PIN
ConcInputs ==
    {<<[cpf |-> c, pin |-> PIN_1234, acao |-> a], REQ_OFFICE>> :
        c \in {CPF_ANA_MASKED, CPF_BIA}, a \in Acao}
    \cup {<<[cpf |-> CPF_BIA, pin |-> PIN_4321, acao |-> Entrada], REQ_OFFICE>>}

NextConc ==
    \/ startup
    \/ \E p \in Procs, in \in ConcInputs : check_begin(p, in[1], in[2])
    \/ \E p \in Procs : check_select(p)
    \/ \E p \in Procs : check_finish(p, now + 1)

SpecConc == Init /\ [][NextConc]_vars

\* C2: with POST /check calls for one identifier interleaved, no state is
\* reached in which the identifier has two events, neighbours in timestamp
\* order, with the same action (at most one of two calls that read the same
\* last event persists a row).
C2_NoRace == \A cpf \in {CPF_ANA, CPF_BIA} : Alternates(RowsOf(registros, cpf))


(***************************************************************************)
(* Exports over a ledger whose events fall on the edges of the days        *)
(* (SpecExport).  The clock jumps between the first instant, the last      *)
(* whole second and the last tick of each day, up to the first instant of  *)
(* the day after the last, each reading later than the one before.         *)
(***************************************************************************)
LAST_SECOND == 23 * 3600 + 59 * 60 + 59

ClockValues ==
    UNION { {combine(DayDate[d], 0, BRT).inst,
             combine(DayDate[d], LAST_SECOND, BRT).inst,
             combine(DayDate[d], LAST_SECOND, BRT).inst + (TicksPerSecond - 1)} :
            d \in 0..MaxDay }
    \cup {combine(DayDate[MaxDay + 1], 0, BRT).inst}

\* not a calendar date: February has no 30th
BAD_DATE == <<"2", "0", "2", "5", "-", "0", "2", "-", "3", "0">>

DateStrings == {DayString(k) : k \in 0..(MaxDay + 1)} \cup {BAD_DATE}

ExportCheckInputs ==
    {<<[cpf |-> CPF_ANA_MASKED, pin |-> PIN_1234, acao |-> Entrada], REQ_OFFICE>>,
     <<[cpf |-> CPF_ANA_MASKED, pin |-> PIN_1234, acao |-> Saida], REQ_OFFICE>>,
     <<[cpf |-> CPF_BIA, pin |-> PIN_1234, acao |-> Entrada], REQ_OFFICE>>}

\* export calls: <<token, start, end>>
ExportInputs ==
    {<<Some(ADMIN_TOKEN), DayString(0), DayString(0)>>,
     <<Some(ADMIN_TOKEN), DayString(0), DayString(MaxDay + 1)>>,
     <<Some(ADMIN_TOKEN), DayString(MaxDay + 1), DayString(MaxDay + 1)>>,
     <<Some(ADMIN_TOKEN), DayString(1), DayString(0)>>,
     <<Some("admin"), BAD_DATE, DayString(0)>>}

NextExport ==
    \/ startup
    \/ \E in \in ExportCheckInputs, t \in ClockValues :
          t > now /\ registrar_ponto(in[1], in[2], t)
    \/ \E x \in ExportInputs : admin_export_json(x[1], x[2], x[3])
    \/ \E x \in ExportInputs : admin_export_csv(x[1], x[2], x[3])
    \/ \E x \in ExportInputs : admin_export_xlsx(x[1], x[2], x[3])

SpecExport == Init /\ [][NextExport]_vars


\* an event's wall-clock time at UTC-3, in ticks since 00:00:00 of EpochDate
WallTicks(e) == e.data_hora + BRT * HourTicks

\* the events from 00:00:00 of day k1 to 23:59:59 of day k2, both at UTC-3
InRange(rows, k1, k2) ==
    {e \in rows : /\ k1 * DayTicks <= WallTicks(e)
                  /\ WallTicks(e) <= k2 * DayTicks + LAST_SECOND * TicksPerSecond}

\* the rows each format must show for an event
JsonRowOf(e) ==
    [nome |-> e.nome, cpf |-> e.cpf, acao |-> e.acao,
     data_hora |-> isoformat(brt_now(e.data_hora)), ip_origem |-> e.ip_origem]

SheetRowOf(e) == <<e.nome, e.cpf, e.acao, strftime_dmy(brt_now(e.data_hora))>>

\* the sequence holds one row for each event of the set, and nothing else
SameRows(seq, S, F(_)) ==
    LET row == [e \in S |-> F(e)]
    IN  /\ Len(seq) = Cardinality(S)
        /\ \A e \in S : Cardinality({i \in 1..Len(seq) : seq[i] = row[e]})
                          = Cardinality({x \in S : row[x] = row[e]})

\* a <= b for two tuples of numbers of one length, the first entry weighing most
RECURSIVE LexLeq(_, _)
LexLeq(a, b) ==
    \/ a = <<>>
    \/ Head(a) < Head(b)
    \/ Head(a) = Head(b) /\ LexLeq(Tail(a), Tail(b))

JsonKey(row) ==
    <<row.data_hora.year, row.data_hora.month, row.data_hora.day,
      row.data_hora.hour, row.data_hora.minute, row.data_hora.second,
      row.data_hora.fraction>>

SheetKey(row) == <<row[4][3], row[4][2], row[4][1], row[4][4], row[4][5], row[4][6]>>

Ascending(seq, Key(_)) ==
    \A i \in 1..Len(seq), j \in 1..Len(seq) : i < j => LexLeq(Key(seq[i]), Key(seq[j]))

\* the response r of an export shows exactly the events S, in ascending order
ShowsExactly(r, S) ==
    /\ r.status = 200
    /\ IF r.op = "export.json"
       THEN /\ SameRows(Get(r.body).registros, S, JsonRowOf)
            /\ Ascending(Get(r.body).registros, JsonKey)
            /\ Get(r.body).total = Cardinality(S)
       ELSE /\ Head(Get(r.body).rows) = CSV_HEADER
            /\ SameRows(Tail(Get(r.body).rows), S, SheetRowOf)
            /\ Ascending(Tail(Get(r.body).rows), SheetKey)

ExportResponses(token, start, end) ==
    admin_export_json_responses(token, start, end)
      \cup admin_export_csv_responses(token, start, end)
      \cup admin_export_xlsx_responses(token, start, end)

Days == 0..(MaxDay + 1)

\* the day a YYYY-MM-DD text of the model names
DayIndex(str) == CHOOSE k \in Days : DayString(k) = str

\* C6: for every ledger state and every period start <= end, each export
\* returns exactly the events stamped from 00:00:00 of the start date to
\* 23:59:59 of the end date (UTC-3), in ascending timestamp order: an event at
\* 23:59:59 of the end date is in, one a second later is out, one at 00:00:00
\* of the start date is in.
C6_Period ==
    /\ \A k1 \in Days, k2 \in Days : k1 <= k2 =>
          \A r \in ExportResponses(Some(ADMIN_TOKEN), DayString(k1), DayString(k2)) :
              ShowsExactly(r, InRange(registros, k1, k2))
    /\ (IsExport(resp) /\ resp.status = 200) =>
          ShowsExactly(resp, InRange(registros, DayIndex(resp.start), DayIndex(resp.end)))

\* an export of the first day alone, the ledger holding an event at its
\* 00:00:00, one at its 23:59:59 and one a second later: two rows returned
C6_Witness ==
    /\ resp.op = "export.json" /\ resp.status = 200
    /\ resp.start = DayString(0) /\ resp.end = DayString(0)
    /\ \E a \in registros, b \in registros, c \in registros :
          /\ WallTicks(a) = 0
          /\ WallTicks(b) = LAST_SECOND * TicksPerSecond
          /\ WallTicks(c) = (LAST_SECOND + 1) * TicksPerSecond
    /\ Get(resp.body).total = 2
    /\ Get(resp.body).registros[2].data_hora.second = 59

\* the period a pair of texts names is malformed or runs backwards
BadPeriod(start, end) ==
    \/ start = BAD_DATE
    \/ end = BAD_DATE
    \/ DayIndex(end) < DayIndex(start)

\* C9: an export whose x-admin-token header is missing or differs from the
\* configured token is answered 401 with no data, whatever the period (401,
\* not 400, when the period is malformed too); with the exact token the
\* answer is 400 for a bad period and the data otherwise.
C9_AdminGuard ==
    /\ \A token \in Tokens, start \in DateStrings, end \in DateStrings :
          (token # Some(ADMIN_TOKEN) \/ BadPeriod(start, end)) =>
              \A r \in ExportResponses(token, start, end) :
                  /\ r.status = (IF token = Some(ADMIN_TOKEN) THEN 400 ELSE 401)
                  /\ r.body = None
    /\ IsExport(resp) =>
          IF resp.token = Some(ADMIN_TOKEN)
          THEN /\ resp.status = (IF BadPeriod(resp.start, resp.end) THEN 400 ELSE 200)
               /\ (resp.body = None) = (resp.status = 400)
          ELSE resp.status = 401 /\ resp.body = None

\* a wrong token with a malformed period, the ledger not empty: 401
C9_Witness ==
    /\ IsExport(resp)
    /\ resp.token = Some("admin") /\ resp.start = BAD_DATE
    /\ resp.status = 401
    /\ registros # {}


(***************************************************************************)
(* Exports over a ledger with events that share a timestamp (SpecTies):    *)
(* the clock does not run backwards, but a reading may repeat the one      *)
(* before.                                                                 *)
(***************************************************************************)
TieCheckInputs ==
    {<<[cpf |-> c, pin |-> PIN_1234, acao |-> a], REQ_OFFICE>> :
        c \in {CPF_ANA_MASKED, CPF_BIA}, a \in Acao}

NextTies ==
    \/ startup
    \/ \E in \in TieCheckInputs, t \in {now, now + 1} :
          t > BootInstant /\ registrar_ponto(in[1], in[2], t)
    \/ admin_export_json(Some(ADMIN_TOKEN), DayString(0), DayString(MaxDay))
    \/ admin_export_csv(Some(ADMIN_TOKEN), DayString(0), DayString(MaxDay))
    \/ admin_export_xlsx(Some(ADMIN_TOKEN), DayString(0), DayString(MaxDay))

SpecTies == Init /\ [][NextTies]_vars

\* what a JSON row and a sheet row both tell of an event: name, identifier,
\* action, and the UTC-3 date and time to the second
JsonCommon(row) ==
    <<row.nome, row.cpf, row.acao,
      <<row.data_hora.day, row.data_hora.month, row.data_hora.year,
        row.data_hora.hour, row.data_hora.minute, row.data_hora.second>>>>

JsonSheet(r) == [i \in 1..Len(Get(r.body).registros) |-> JsonCommon(Get(r.body).registros[i])]

Sheet(r) == Tail(Get(r.body).rows)

\* C8: for one ledger state and one period, the three exports show
\* the same rows (name, identifier, action, UTC-3 instant) in the same order.
C8_SameOrder ==
    \A k1 \in Days, k2 \in Days : k1 <= k2 =>
       \A j \in admin_export_json_responses(Some(ADMIN_TOKEN), DayString(k1), DayString(k2)),
          c \in admin_export_csv_responses(Some(ADMIN_TOKEN), DayString(k1), DayString(k2)),
          x \in admin_export_xlsx_responses(Some(ADMIN_TOKEN), DayString(k1), DayString(k2)) :
             JsonSheet(j) = Sheet(c) /\ Sheet(c) = Sheet(x)

(***************************************************************************)
(* parse_period as a function of its two texts (SpecPeriod).               *)
(***************************************************************************)
TXT_2024_02_29 == <<"2", "0", "2", "4", "-", "0", "2", "-", "2", "9">>
TXT_2025_02_29 == <<"2", "0", "2", "5", "-", "0", "2", "-", "2", "9">>
TXT_2025_13_01 == <<"2", "0", "2", "5", "-", "1", "3", "-", "0", "1">>
TXT_2025_01_00 == <<"2", "0", "2", "5", "-", "0", "1", "-", "0", "0">>
TXT_2025_01_05 == <<"2", "0", "2", "5", "-", "0", "1", "-", "0", "5">>
TXT_2025_01_10 == <<"2", "0", "2", "5", "-", "0", "1", "-", "1", "0">>
TXT_DMY == <<"3", "1", "/", "1", "2", "/", "2", "0", "2", "4">>
TXT_SHORT == <<"2", "0", "2", "5", "-", "1", "-", "5">>
TXT_EMPTY == <<>>

PeriodTexts ==
    {DayString(k) : k \in Days}
    \cup {TXT_2024_02_29, TXT_2025_02_29, TXT_2025_13_01, TXT_2025_01_00,
          TXT_2025_01_05, TXT_2025_01_10, TXT_DMY, TXT_SHORT, TXT_EMPTY, BAD_DATE}

InitPeriod ==
    /\ registros = {}
    /\ now = BootInstant
    /\ usuarios_txt = ROSTER_1
    /\ usuarios_mtime = 0
    /\ USERS_CACHE = None
    /\ USERS_MTIME = None
    /\ procs = [p \in Procs |-> IdleProc]
    /\ ALLOWED_IPS = {IP_OFFICE}
    /\ resp \in [op : {"input"}, status : {0}, body : {None},
                   start : PeriodTexts, end : PeriodTexts]

\* a call parse_period(start, end) on the texts drawn
parse_period_call ==
    LET per == parse_period(resp.start, resp.end)
    IN  /\ resp.op = "input"
        /\ resp' = [op |-> "parse_period", status |-> per.status,
                    start |-> resp.start, end |-> resp.end,
                    body |-> IF per.status = 200
                             THEN Some(<<per.start_dt, per.end_dt>>)
                             ELSE None]
        /\ UNCHANGED <<registros, now, ALLOWED_IPS, usuarios_txt, usuarios_mtime,
                       USERS_CACHE, USERS_MTIME, procs>>

NextPeriod == parse_period_call

SpecPeriod == InitPeriod /\ [][NextPeriod]_vars

\* the calendar dates among the texts, with their distance in days from EpochDate
KnownDay(txt) ==
    CASE txt = TXT_2024_02_29 -> Some(0 - 306)
      [] txt = TXT_2025_01_05 -> Some(5)
      [] txt = TXT_2025_01_10 -> Some(10)
      [] \E k \in Days : txt = DayString(k) -> Some(CHOOSE k \in Days : txt = DayString(k))
      [] OTHER -> None

\* C7: parse_period fails with 400 when either text is no calendar date or the
\* end date is before the start date; otherwise, also for start = end, it
\* gives the start date at 00:00:00 and the end date at 23:59:59, both at
\* UTC-3, the start not after the end; and it changes no state.
C7_ParsePeriod ==
    /\ resp.op = "parse_period" =>
          LET s == KnownDay(resp.start)
              e == KnownDay(resp.end)
          IN  IF s = None \/ e = None \/ (s # None /\ e # None /\ Get(e) < Get(s))
              THEN resp.status = 400 /\ resp.body = None
              ELSE /\ resp.status = 200
                   /\ Get(resp.body)[1].off = BRT /\ Get(resp.body)[2].off = BRT
                   /\ LocalTicks(Get(resp.body)[1]) = Get(s) * DayTicks
                   /\ LocalTicks(Get(resp.body)[2])
                        = Get(e) * DayTicks + LAST_SECOND * TicksPerSecond
                   /\ Get(resp.body)[1].inst <= Get(resp.body)[2].inst
    /\ resp.op \in {"input", "parse_period"} =>
          /\ registros = {} /\ now = BootInstant /\ procs = [p \in Procs |-> IdleProc]
          /\ usuarios_txt = ROSTER_1 /\ usuarios_mtime = 0
          /\ USERS_CACHE = None /\ USERS_MTIME = None

\* parse("2025-01-05", "2025-01-05"): the one day, 00:00:00 to 23:59:59
C7_Witness ==
    /\ resp.op = "parse_period" /\ resp.status = 200
    /\ resp.start = TXT_2025_01_05 /\ resp.end = TXT_2025_01_05
    /\ Get(resp.body)[2].inst - Get(resp.body)[1].inst = LAST_SECOND * TicksPerSecond

(***************************************************************************)
(* The roster cache under edits of usuarios.txt, lookups one at a time     *)
(* (SpecRoster).                                                           *)
(***************************************************************************)
\* a call get_users(), its result kept as the response
get_users_call ==
    LET gu == get_users(USERS_CACHE, USERS_MTIME, usuarios_txt, usuarios_mtime)
    IN  /\ USERS_CACHE # None
        /\ USERS_CACHE' = gu.cache
        /\ USERS_MTIME' = gu.mtime
        /\ resp' = [op |-> "get_users", status |-> 200, body |-> gu.cache,
                    reread |-> gu.reread, mtime |-> usuarios_mtime]
        /\ UNCHANGED <<registros, now, ALLOWED_IPS, usuarios_txt, usuarios_mtime, procs>>

RosterCheckInputs ==
    {<<[cpf |-> CPF_ANA, pin |-> p, acao |-> a], REQ_OFFICE>> :
        p \in {PIN_1234, PIN_4321}, a \in Acao}

NextRoster ==
    \/ startup
    \/ get_users_call
    \/ \E lines \in RosterFiles : ModifyRoster(lines)
    \/ \E in \in RosterCheckInputs : registrar_ponto(in[1], in[2], now + 1)

SpecRoster == Init /\ [][NextRoster]_vars

\* the step calls get_users(): at start-up, on its own, or from POST /check
\* once the lengths are validated
CallsGetUsers ==
    \/ startup
    \/ get_users_call
    \/ \E in \in RosterCheckInputs :
          IsCheck(in) /\ resp'.status \notin {400, 403}

\* C10: with lookups one at a time and every edit of the roster file moving
\* its modification time, each get_users call returns the mapping parsed
\* from the file as it is at the call; it reads the file exactly when the
\* cache is empty or the modification time differs from the one stored.
C10_FreshRoster ==
    [][CallsGetUsers =>
          /\ USERS_CACHE' = Some(load_users_from_txt(usuarios_txt))
          /\ USERS_MTIME' = Some(usuarios_mtime)
          /\ get_users_call =>
                /\ resp'.body = Some(load_users_from_txt(usuarios_txt))
                /\ resp'.reread = (USERS_CACHE = None \/ USERS_MTIME # Some(usuarios_mtime))
          /\ (USERS_CACHE # None /\ USERS_MTIME = Some(usuarios_mtime)) =>
                USERS_CACHE' = USERS_CACHE]_vars

\* a lookup after an edit: the file is read again and the new roster returned
C10_Witness ==
    /\ resp.op = "get_users" /\ resp.reread
    /\ resp.mtime >= 1
    /\ usuarios_txt = ROSTER_2
    /\ resp.body = Some(load_users_from_txt(ROSTER_2))
    /\ CPF_BIA \notin DOMAIN Get(resp.body)

(***************************************************************************)
(* load_users_from_txt as a function of the lines of the file (SpecLoad).  *)
(***************************************************************************)
MaxLines == 2

LINE_COMMENT == <<" ", "#", "x", ";", "y", ";", "z">>
LINE_BLANK == <<" ", "\t">>
LINE_NOSEP == NOME_ANA \o <<" ">> \o CPF_ANA \o <<" ">> \o PIN_1234
LINE_TWO_FIELDS == NOME_ANA \o <<";">> \o CPF_ANA
LINE_HEADER == <<"N", "a", "m", "e", ",", " ", "C", "P", "F", ",", "S", "e", "n", "h", "a">>
LINE_SHORT_CPF == NOME_ANA \o <<";">> \o CPF_SHORT \o <<";">> \o PIN_1234
LINE_SHORT_PIN == NOME_ANA \o <<";">> \o CPF_ANA \o <<";">> \o <<"1", "2", "3">>
LINE_LONG_PIN == NOME_BIA \o <<";">> \o CPF_BIA \o <<";">> \o Rep("7", 9)
LINE_ANA == NOME_ANA \o <<";">> \o CPF_ANA_MASKED \o <<";">> \o PIN_1234
\* Ana's identifier again: another name, "," as separator, a PIN with a
\* letter in it, a fourth field
LINE_ANA_AGAIN ==
    <<" ">> \o NOME_BIA \o <<" ", ",">> \o CPF_ANA \o <<",", "4", "3", "a", "2", "1", ",", "x">>
LINE_BIA == NOME_BIA \o <<",", " ">> \o CPF_BIA \o <<",">> \o PIN_1234
\* both separators in the line: ";" is the one taken
LINE_BOTH_SEPS == <<"A", ",", "B", ";">> \o CPF_BIA \o <<";">> \o PIN_4321

RosterLines ==
    {LINE_COMMENT, LINE_BLANK, LINE_NOSEP, LINE_TWO_FIELDS, LINE_HEADER,
     LINE_SHORT_CPF, LINE_SHORT_PIN, LINE_LONG_PIN, LINE_ANA, LINE_ANA_AGAIN,
     LINE_BIA, LINE_BOTH_SEPS}

\* the files of at most MaxLines lines
FilesOfLines == UNION {[1..n -> RosterLines] : n \in 0..MaxLines}

InitLoad ==
    /\ registros = {}
    /\ now = BootInstant
    /\ usuarios_txt = ROSTER_1
    /\ usuarios_mtime = 0
    /\ USERS_CACHE = None
    /\ USERS_MTIME = None
    /\ procs = [p \in Procs |-> IdleProc]
    /\ ALLOWED_IPS = {IP_OFFICE}
    /\ resp \in [op : {"lines"}, status : {0}, body : {None}, lines : FilesOfLines]

\* a call load_users_from_txt on the file drawn
load_users_call ==
    /\ resp.op = "lines"
    /\ resp' = [op |-> "load_users_from_txt", status |-> 200, lines |-> resp.lines,
                body |-> Some(load_users_from_txt(resp.lines))]
    /\ UNCHANGED <<registros, now, ALLOWED_IPS, usuarios_txt, usuarios_mtime,
                   USERS_CACHE, USERS_MTIME, procs>>

NextLoad == load_users_call

SpecLoad == InitLoad /\ [][NextLoad]_vars

\* the record each line of RosterLines holds, <<identifier, name, PIN>>, read
\* off the line by hand; None for a line to skip or discard
RecordOf(line) ==
    CASE line = LINE_ANA -> Some(<<CPF_ANA, NOME_ANA, PIN_1234>>)
      [] line = LINE_ANA_AGAIN -> Some(<<CPF_ANA, NOME_BIA, PIN_4321>>)
      [] line = LINE_BIA -> Some(<<CPF_BIA, NOME_BIA, PIN_1234>>)
      [] line = LINE_BOTH_SEPS -> Some(<<CPF_BIA, <<"A", ",", "B">>, PIN_4321>>)
      [] OTHER -> None

\* C11: load_users_from_txt returns a mapping whose keys are exactly the
\* 11-digit identifiers of the accepted records of the file (comments, blank
\* lines, lines with no separator or fewer than three fields, headers and
\* records with a bad identifier or PIN left out, the load going on), each
\* key mapped to the name and PIN of the last accepted record carrying it.
C11_LastRecordWins ==
    resp.op = "load_users_from_txt" =>
       LET lines == resp.lines
           users == Get(resp.body)
           accepted == {i \in 1..Len(lines) : RecordOf(lines[i]) # None}
           rec(i) == Get(RecordOf(lines[i]))
       IN  /\ DOMAIN users = {rec(i)[1] : i \in accepted}
           /\ \A k \in DOMAIN users :
                 /\ Len(k) = 11 /\ \A j \in 1..11 : IsDigit(k[j])
                 /\ \E i \in accepted :
                       /\ rec(i)[1] = k
                       /\ \A j \in accepted : rec(j)[1] = k => j <= i
                       /\ users[k] = <<rec(i)[2], rec(i)[3]>>

\* two accepted records of one identifier, the later one kept
C11_Witness ==
    /\ resp.op = "load_users_from_txt"
    /\ resp.lines = <<LINE_ANA, LINE_ANA_AGAIN>>
    /\ Get(resp.body) = [c \in {CPF_ANA} |-> <<NOME_BIA, PIN_4321>>]

(***************************************************************************)
(* POST /check step by step, one call at a time, over requests that fail   *)
(* several guards at once (SpecSteps).                                     *)
(***************************************************************************)
GuardPayloads ==
    {[cpf |-> CPF_ANA_MASKED, pin |-> PIN_1234, acao |-> Entrada],
     [cpf |-> CPF_ANA_MASKED, pin |-> PIN_1234, acao |-> Saida],
     [cpf |-> CPF_BIA, pin |-> PIN_1234, acao |-> Saida],
     [cpf |-> CPF_ANA, pin |-> PIN_4321, acao |-> Entrada],
     [cpf |-> CPF_UNKNOWN, pin |-> PIN_1234, acao |-> Entrada],
     [cpf |-> CPF_UNKNOWN, pin |-> PIN_LETTERS, acao |-> Entrada],
     [cpf |-> CPF_SHORT, pin |-> PIN_1234, acao |-> Entrada],
     [cpf |-> CPF_SHORT, pin |-> PIN_LETTERS, acao |-> Saida]}

GuardInputs ==
    {<<payload, request>> : payload \in GuardPayloads, request \in {REQ_OFFICE, REQ_OTHER}}

NextSteps ==
    \/ startup
    \/ \E in \in GuardInputs : check_begin(1, in[1], in[2])
    \/ check_select(1)
    \/ check_finish(1, now + 1)

SpecSteps == Init /\ [][NextSteps]_vars

\* the step is lines 221-237 of the call with input in
IsBegin(in) ==
    /\ procs[1].pc = "idle"
    /\ \/ /\ procs'[1].pc = "idle"
          /\ resp'.op = "check" /\ resp'.payload = in[1] /\ resp'.request = in[2]
       \/ /\ procs'[1].pc = "select"
          /\ procs'[1].payload = in[1] /\ procs'[1].request = in[2]
    /\ check_begin(1, in[1], in[2])

\* the status of the first guard the call fails, 200 when it passes the four
FirstFailure(in) ==
    IF ~IpPasses(in) THEN 403
    ELSE IF ~LengthsPass(in) THEN 400
    ELSE IF ~Known(in) THEN 404
    ELSE IF ~PinMatches(in) THEN 401
    ELSE 200

\* the guards a call fails
FailedGuards(in) ==
    {g \in {"ip", "lengths", "roster", "pin"} :
        \/ g = "ip" /\ ~IpPasses(in)
        \/ g = "lengths" /\ ~LengthsPass(in)
        \/ g = "roster" /\ ~Known(in)
        \/ g = "pin" /\ (~Known(in) \/ ~PinMatches(in))}

\* C12: POST /check reports the first guard that fails, in the order
\* allow-list (403), lengths (400), roster (404), PIN (401), whatever later
\* guards fail too, and the call ends there: the SELECT of the last event
\* and the alternation rule run only for a call that passed the four guards.
C12_GuardOrder ==
    [][/\ \A in \in GuardInputs : IsBegin(in) =>
             IF FirstFailure(in) # 200
             THEN /\ resp'.status = FirstFailure(in)
                  /\ procs'[1].pc = "idle"
                  /\ registros' = registros
             ELSE procs'[1].pc = "select" /\ resp' = resp
       /\ (check_select(1) \/ check_finish(1, now + 1)) =>
             LET in == <<procs[1].payload, procs[1].request>>
             IN  FirstFailure(in) = 200]_vars

\* a call from outside the allow-list, with a short identifier and a PIN of
\* letters: 403, the table holding rows
C12_Witness ==
    /\ resp.op = "check" /\ resp.status = 403
    /\ resp.payload.cpf = CPF_SHORT /\ resp.payload.pin = PIN_LETTERS
    /\ resp.request = REQ_OTHER
    /\ ALLOWED_IPS = {IP_OFFICE}
    /\ registros # {}

(***************************************************************************)
(* Claims on POST /check run as one step (Spec).                           *)
(***************************************************************************)
\* C13: a POST /check call adds a row only if the caller's address passes
\* the allow-list, the normalized identifier has 11 digits and the
\* normalized PIN 4 to 8, the identifier is in the roster file as it is at
\* the call and the PIN is the roster's; a call answered 403, 400, 404 or
\* 401 leaves the table as it was; a row added carries the call's normalized
\* identifier and the roster's name for it.
C13_OnlyAuthenticated ==
    [][\A in \in CheckInputs : IsCheck(in) =>
          /\ registros' # registros => Authenticated(in)
          /\ resp'.status \in {400, 401, 403, 404} => registros' = registros
          /\ ~Authenticated(in) => resp'.status \in {400, 401, 403, 404}
          /\ \A r \in registros' \ registros :
                /\ r.cpf = normalize_cpf(in[1].cpf)
                /\ r.cpf \in DOMAIN RosterOnDisk
                /\ r.nome = RosterOnDisk[r.cpf][1]]_vars

\* after the roster was edited, Ana's new PIN is taken and her old one
\* refused with 401, the table holding the one row
C13_Witness ==
    /\ usuarios_txt = ROSTER_2
    /\ resp.op = "check" /\ resp.status = 401
    /\ resp.payload.pin = PIN_1234 /\ normalize_cpf(resp.payload.cpf) = CPF_ANA
    /\ Cardinality(registros) = 1
    /\ \E r \in registros : r.cpf = CPF_ANA /\ r.nome = NOME_ANA /\ r.id = 1

(***************************************************************************)
(* POST /check under allow-lists of every shape, from requests with and    *)
(* without a forwarded-address chain (SpecAllow).                          *)
(***************************************************************************)
\* office first in the chain, another address behind it and as peer
REQ_CHAIN == [xff |-> Some(<<IP_OFFICE, IP_OTHER>>), client |-> Some(IP_OTHER)]
\* no x-forwarded-for header: the peer address counts
REQ_DIRECT == [xff |-> None, client |-> Some(IP_OFFICE)]
REQ_DIRECT_OTHER == [xff |-> None, client |-> Some(IP_OTHER)]
\* a header with nothing in it
REQ_EMPTY_XFF == [xff |-> Some(<<>>), client |-> Some(IP_OFFICE)]
\* no header and no peer
REQ_NO_CLIENT == [xff |-> None, client |-> None]

AllowRequests ==
    {REQ_OFFICE, REQ_OTHER, REQ_CHAIN, REQ_DIRECT, REQ_DIRECT_OTHER,
     REQ_EMPTY_XFF, REQ_NO_CLIENT}

AllowInputs ==
    {<<[cpf |-> CPF_ANA, pin |-> PIN_1234, acao |-> a], request>> :
        a \in Acao, request \in AllowRequests}

AllowLists == {{}, {IP_OFFICE}, {IP_OTHER, IP_PROXY}}

InitAllow ==
    /\ InitCommon
    /\ ALLOWED_IPS \in AllowLists

NextAllow ==
    \/ startup
    \/ \E in \in AllowInputs : registrar_ponto(in[1], in[2], now + 1)

SpecAllow == InitAllow /\ [][NextAllow]_vars

\* the address a request is judged by: the first entry of its chain, the
\* peer when it has no chain (no header, or one with nothing in it)
JudgedAddress(request) ==
    CASE request = REQ_OFFICE -> IP_OFFICE
      [] request = REQ_OTHER -> IP_OTHER
      [] request = REQ_CHAIN -> IP_OFFICE
      [] request = REQ_DIRECT -> IP_OFFICE
      [] request = REQ_DIRECT_OTHER -> IP_OTHER
      [] request = REQ_EMPTY_XFF -> IP_OFFICE
      [] request = REQ_NO_CLIENT -> "unknown"

\* C14: with an empty allow-list enforce_ip_allowlist admits every request;
\* with a non-empty one it admits a request exactly when the first entry of
\* its forwarded-address chain, or the peer address when there is no chain,
\* is in the list, and every other check-in is answered 403.
C14_AllowList ==
    [][\A in \in AllowInputs : IsCheck(in) =>
          LET admitted == ALLOWED_IPS = {} \/ JudgedAddress(in[2]) \in ALLOWED_IPS
          IN  /\ enforce_ip_allowlist(ALLOWED_IPS, in[2]) = admitted
              /\ (resp'.status = 403) = ~admitted
              /\ ~admitted => registros' = registros
              /\ \A r \in registros' \ registros : r.ip_origem = JudgedAddress(in[2])]_vars

\* office is the only address allowed: a call whose chain begins elsewhere
\* and passes through the office is refused, after one with the office
\* first in its chain was taken
C14_Witness ==
    /\ ALLOWED_IPS = {IP_OFFICE}
    /\ resp.op = "check" /\ resp.status = 403 /\ resp.request = REQ_OTHER
    /\ \E r \in registros : r.ip_origem = IP_OFFICE

(***************************************************************************)
(* get_users() run by concurrent workers while usuarios.txt is edited      *)
(* (SpecCache).  A call is the statements of lines 147-151, a worker       *)
(* possibly switched out between any two of them, and between the return   *)
(* of load_users_from_txt and the store of its result; an edit replaces    *)
(* content and modification time of the file in one step.                  *)
(***************************************************************************)
MaxUpdates == 2

\* an administrator edits usuarios.txt while lookups run
update_roster(lines) ==
    /\ USERS_CACHE # None
    /\ usuarios_mtime < MaxUpdates
    /\ lines # usuarios_txt
    /\ usuarios_txt' = lines
    /\ usuarios_mtime' = usuarios_mtime + 1
    /\ UNCHANGED <<registros, now, ALLOWED_IPS, USERS_CACHE, USERS_MTIME, resp, procs>>

\* line 147: mtime = os.path.getmtime(USUARIOS_FILE)
get_users_getmtime(p) ==
    /\ USERS_CACHE # None
    /\ procs[p].pc = "idle"
    /\ procs' = [procs EXCEPT ![p] = [pc |-> "test", mtime |-> usuarios_mtime]]
    /\ UNCHANGED <<registros, now, ALLOWED_IPS, usuarios_txt, usuarios_mtime,
                   USERS_CACHE, USERS_MTIME, resp>>

\* line 148: if _USERS_CACHE is None or _USERS_MTIME != mtime
get_users_test(p) ==
    /\ procs[p].pc = "test"
    /\ procs' = [procs EXCEPT ![p].pc =
                    IF USERS_CACHE = None \/ USERS_MTIME # Some(procs[p].mtime)
                    THEN "load" ELSE "return"]
    /\ UNCHANGED <<registros, now, ALLOWED_IPS, usuarios_txt, usuarios_mtime,
                   USERS_CACHE, USERS_MTIME, resp>>

\* line 149, right side: load_users_from_txt(USUARIOS_FILE)
get_users_load(p) ==
    /\ procs[p].pc = "load"
    /\ procs' = [procs EXCEPT ![p] = [pc |-> "store_cache", mtime |-> procs[p].mtime,
                                      users |-> LoadedRoster[usuarios_txt]]]
    /\ UNCHANGED <<registros, now, ALLOWED_IPS, usuarios_txt, usuarios_mtime,
                   USERS_CACHE, USERS_MTIME, resp>>

\* line 149, left side: _USERS_CACHE = ...
get_users_store_cache(p) ==
    /\ procs[p].pc = "store_cache"
    /\ USERS_CACHE' = Some(procs[p].users)
    /\ procs' = [procs EXCEPT ![p] = [pc |-> "store_mtime", mtime |-> procs[p].mtime]]
    /\ UNCHANGED <<registros, now, ALLOWED_IPS, usuarios_txt, usuarios_mtime,
                   USERS_MTIME, resp>>

\* line 150: _USERS_MTIME = mtime
get_users_store_mtime(p) ==
    /\ procs[p].pc = "store_mtime"
    /\ USERS_MTIME' = Some(procs[p].mtime)
    /\ procs' = [procs EXCEPT ![p] = [pc |-> "return"]]
    /\ UNCHANGED <<registros, now, ALLOWED_IPS, usuarios_txt, usuarios_mtime,
                   USERS_CACHE, resp>>

\* line 151: return _USERS_CACHE
get_users_return(p) ==
    /\ procs[p].pc = "return"
    /\ resp' = [op |-> "get_users", status |-> 200, body |-> USERS_CACHE]
    /\ procs' = [procs EXCEPT ![p] = IdleProc]
    /\ UNCHANGED <<registros, now, ALLOWED_IPS, usuarios_txt, usuarios_mtime,
                   USERS_CACHE, USERS_MTIME>>

NextCache ==
    \/ startup
    \/ \E lines \in RosterFiles : update_roster(lines)
    \/ \E p \in Procs : get_users_getmtime(p)
    \/ \E p \in Procs : get_users_test(p)
    \/ \E p \in Procs : get_users_load(p)
    \/ \E p \in Procs : get_users_store_cache(p)
    \/ \E p \in Procs : get_users_store_mtime(p)
    \/ \E p \in Procs : get_users_return(p)

SpecCache == Init /\ [][NextCache]_vars

\* C15: whatever the interleaving of concurrent get_users calls and roster
\* edits, once no call is in flight the cache does not hold the parse of an
\* older content under the file's present modification time: the next call
\* returns the roster parsed from the file as it is.
C15_SelfHeals ==
    (/\ \A p \in Procs : procs[p].pc = "idle"
     /\ USERS_CACHE # None) =>
            get_users(USERS_CACHE, USERS_MTIME, usuarios_txt, usuarios_mtime).cache
               = Some(load_users_from_txt(usuarios_txt))

\* the instant an isoformat text names: its date and time of day, less its
\* offset
IsoInstant(iso) ==
    (ToOrdinal(<<iso.year, iso.month, iso.day>>) - ToOrdinal(EpochDate)) * DayTicks
      + (iso.hour * 3600 + iso.minute * 60 + iso.second) * TicksPerSecond
      + iso.fraction
      - iso.utcoffset * HourTicks

\* C16: an authenticated check-in whose identifier has no event yet, or
\* whose latest event has the other action, succeeds, for Saída as for
\* Entrada; it adds one row with the roster's name, the normalized
\* identifier, the action asked for and the clock reading of the call, and
\* answers with that name, identifier, action and instant.
C16_Accepted ==
    [][\A in \in CheckInputs :
          (IsCheck(in) /\ Authenticated(in) /\ ~Repeats(in)) =>
             /\ resp'.status = 200
             /\ Cardinality(registros' \ registros) = 1
             /\ \A r \in registros' \ registros :
                   /\ r.nome = RosterOnDisk[normalize_cpf(in[1].cpf)][1]
                   /\ r.cpf = normalize_cpf(in[1].cpf)
                   /\ r.acao = in[1].acao
                   /\ r.data_hora = brt_now(now + 1).inst
                   /\ Get(resp'.body).nome = r.nome
                   /\ Get(resp'.body).cpf = r.cpf
                   /\ Get(resp'.body).acao = r.acao
                   /\ IsoInstant(Get(resp'.body).data_hora) = r.data_hora]_vars

\* the first event of an identifier, a Saída, taken
C16_Witness ==
    /\ resp.op = "check" /\ resp.status = 200
    /\ resp.payload.acao = Saida
    /\ Get(resp.body).acao = Saida
    /\ Cardinality(registros) = 1
    /\ \A r \in registros : r.acao = Saida /\ r.cpf = Get(resp.body).cpf

\* the outcomes the alternation rule may give on a table: "recorded", or the
\* error naming the last action
Outcomes(rows, cpf, acao) ==
    {IF alternation_error(last, acao) = None
     THEN <<200, <<>>>>
     ELSE <<Get(alternation_error(last, acao)).status,
            Get(alternation_error(last, acao)).detail>> :
        last \in select_last(rows, cpf)}

\* C17: the alternation rule looks at the identifier's own events only: an
\* authenticated check-in for an identifier ends as it would on any table
\* holding the same events of that identifier and other events of the other
\* identifiers, and it leaves the events of every other identifier as they
\* were.
C17_PerIdentifier ==
    [][\A in \in CheckInputs : (IsCheck(in) /\ Authenticated(in)) =>
          LET cpf == normalize_cpf(in[1].cpf)
              own == RowsOf(registros, cpf)
          IN  /\ \A others \in SUBSET (registros \ own) :
                    /\ Outcomes(own \cup others, cpf, in[1].acao)
                         = Outcomes(registros, cpf, in[1].acao)
                    /\ <<resp'.status, resp'.detail>>
                         \in Outcomes(own \cup others, cpf, in[1].acao)
              /\ registros' \ registros \subseteq RowsOf(registros', cpf)
              /\ \A other \in {CPF_ANA, CPF_BIA} \ {cpf} :
                    RowsOf(registros', other) = RowsOf(registros, other)]_vars

\* Ana's Entrada refused on her own last Entrada, the latest event of the
\* table being a Saída of Bia
C17_Witness ==
    /\ IsAlternationError(resp)
    /\ normalize_cpf(resp.payload.cpf) = CPF_ANA /\ resp.payload.acao = Entrada
    /\ \E a \in registros, b \in registros :
          /\ a.cpf = CPF_ANA /\ a.acao = Entrada
          /\ b.cpf = CPF_BIA /\ b.acao = Saida
          /\ \A r \in registros : r.data_hora <= b.data_hora

(***************************************************************************)
(* The row consulted as the last one, the clock not running backwards but  *)
(* possibly reading the same twice (SpecTies).                             *)
(***************************************************************************)
\* the step is the call POST /check with input in, at a clock reading that
\* is the one before or the next
IsTieCheck(in) ==
    /\ resp'.op = "check" /\ resp'.payload = in[1] /\ resp'.request = in[2]
    /\ \E t \in {now, now + 1} : t > BootInstant /\ registrar_ponto(in[1], in[2], t)

\* the rows of an identifier persisted after all its others
NewestRows(rows, cpf) ==
    {r \in RowsOf(rows, cpf) : \A q \in RowsOf(rows, cpf) : q.id <= r.id}

\* C18: with the calls run one at a time and the clock never running
\* backwards, a check-in is decided against the event persisted last for
\* its identifier, also when that event and the one before carry the same
\* timestamp: it is refused exactly when that event has the action asked for.
C18_LatestConsulted ==
    [][\A in \in TieCheckInputs : IsTieCheck(in) =>
          LET newest == NewestRows(registros, normalize_cpf(in[1].cpf))
          IN  (resp'.status # 200) = (\E r \in newest : r.acao = in[1].acao)]_vars

=============================================================================
